---- MODULE Spec2Model ----
(***************************************************************************)
(* A model of train.py: the per-item fetch VideoDataset.__getitem__, the   *)
(* dataset indexer VideoBehaviorModel.prepare_data, and the run of         *)
(* VideoBehaviorModel.main (loaders, model construction, training loop,    *)
(* evaluation loop, checkpoint, plot).                                     *)
(*                                                                         *)
(* Three specifications share the definitions below:                       *)
(*   SpecItem     one call of VideoDataset.__getitem__                     *)
(*   SpecIndexer  one call of prepare_data over every small directory tree *)
(*   Spec         one run of main()                                        *)
(***************************************************************************)
EXTENDS Integers, Sequences, FiniteSets, TLC

VARIABLES
    \* ---- VideoDataset.__getitem__ ----
    item_pc,             \* position inside __getitem__
    video,               \* the file behind video_paths[idx]: [readable, stream]
    item_label,          \* labels[idx]
    cap_pos,             \* number of frames cap.read() has delivered
    frames,              \* the python list `frames` (lines 43-48)
    tensor,              \* `frames` once it is an array/tensor (lines 52-61)
    item_result,         \* what __getitem__ returned or raised
    \* ---- VideoBehaviorModel fields (constructor arguments) ----
    input_size, num_classes, batch_size, epochs, fixed_frame_count,
    \* ---- the filesystem under video_folder ----
    root,                \* os.listdir(video_folder), in enumeration order
    listed,              \* class folder -> os.listdir(class_path) as it was read
    \* ---- prepare_data locals ----
    class_names, label_dict, class_pos, cur_files, file_pos,
    train_paths, test_paths, train_labels, test_labels,
    \* ---- main() ----
    pc,                  \* position inside main()
    failure,             \* the exception that aborted the run, or "none"
    failedIn,            \* the function the exception was raised in
    model,               \* the VideoLSTMTransformerModel main() built
    opt_steps,           \* optimizer.step() calls so far (ModelState version)
    \* ---- train_model / test_model locals ----
    epoch, remaining, batches_done, running_loss, correct, total,
    train_losses, train_accuracies, test_accuracy,
    \* ---- side effects ----
    checkpoints,         \* one entry per torch.save, recording when it happened
    plotted              \* what plot_results was given

itemVars == <<item_pc, video, item_label, cap_pos, frames, tensor, item_result>>
configVars == <<input_size, num_classes, batch_size, epochs>>
indexVars == <<root, listed, class_names, label_dict, class_pos, cur_files,
               file_pos, train_paths, test_paths, train_labels, test_labels>>
loopVars == <<epoch, remaining, batches_done, running_loss, correct, total,
              train_losses, train_accuracies, test_accuracy>>
runRest == <<failure, failedIn, model, opt_steps, checkpoints, plotted>>
runVars == <<pc, runRest>>
vars == <<itemVars, configVars, fixed_frame_count, indexVars, loopVars, runVars>>

----------------------------------------------------------------------------
(* Bounds of the model *)

MaxFrames == 3        \* longest decoded stream
MaxF == 3             \* largest fixed_frame_count
MaxDirs == 2          \* most entries in video_folder
MaxFiles == 1         \* most entries in one class folder
MaxEpochs == 2        \* largest epochs
MaxBatch == 2         \* largest batch_size
MaxNumClasses == 2    \* largest num_classes

(* Program constants *)

ResizeSide == 224       \* cv2.resize(frame, (224, 224))
Channels == 3           \* cv2 decodes to 3-channel BGR frames
PixelMax == 255         \* frames / 255.0
DefaultInputSize == 224 \* __init__(..., input_size=224, ...)
HiddenSize == 512       \* __init__(..., hidden_size=512, ...)
TrainPercent == 80      \* np.random.rand() < 0.8

Range(s) == {s[i] : i \in DOMAIN s}
Min(a, b) == IF a < b THEN a ELSE b

----------------------------------------------------------------------------
(* VideoDataset.__getitem__                                                *)
(*                                                                         *)
(* A decoded frame is [h, w, pix]: its height, width and (uniform) 8-bit   *)
(* intensity.  An array or tensor is [shape, data]: shape is the numpy     *)
(* shape, data the content of each entry along axis 0.  Normalised         *)
(* intensities are held in thousandths.                                    *)

RawFrames == {[h |-> 4, w |-> 4, pix |-> p] : p \in {0, PixelMax}}

RECURSIVE SeqsUpTo(_, _)
SeqsUpTo(S, n) ==
    IF n = 0 THEN {<<>>}
    ELSE LET shorter == SeqsUpTo(S, n - 1)
         IN  shorter \cup {Append(s, x) : s \in {t \in shorter : Len(t) = n - 1}, x \in S}

\* A file is [readable, stream]; an unreadable file decodes to nothing.
VideoFiles ==
    {[readable |-> TRUE, stream |-> s] : s \in SeqsUpTo(RawFrames, MaxFrames)}
    \cup {[readable |-> FALSE, stream |-> <<>>]}

\* cv2.resize(frame, (224, 224))
Resize(frame) == [h |-> ResizeSide, w |-> ResizeSide, pix |-> frame.pix]

\* np.array(frames): a list of L (224,224,3) images stacks to (L,224,224,3);
\* the empty list becomes an array of shape (0,).
NpArray(list) ==
    IF Len(list) = 0
    THEN [shape |-> <<0>>, data |-> <<>>]
    ELSE [shape |-> <<Len(list), list[1].h, list[1].w, Channels>>,
          data |-> [i \in 1..Len(list) |-> list[i].pix]]

\* torch.tensor(frames, dtype=float32) / 255.0
Normalize(arr) ==
    [shape |-> arr.shape,
     data |-> [i \in 1..Len(arr.data) |-> (arr.data[i] * 1000) \div PixelMax]]

\* len(frames) of an array or tensor: the extent of axis 0
TLen(t) == t.shape[1]

\* np.pad accepts one (before, after) pair per axis: four pairs fit only an
\* array of four axes, anything else raises ValueError.
PadFits(t) == Len(t.shape) = 4

\* np.pad(frames, ((0, padding), (0,0), (0,0), (0,0)), constant_values=0)
PadTail(t, padding) ==
    [shape |-> [t.shape EXCEPT ![1] = @ + padding],
     data |-> t.data \o [i \in 1..padding |-> 0]]

\* frames[:fixed_frame_count]
Truncate(t, n) ==
    [shape |-> [t.shape EXCEPT ![1] = Min(@, n)],
     data |-> SubSeq(t.data, 1, Min(Len(t.data), n))]

\* lines 55-59, for a tensor np.pad accepts
PadOrTruncate(t, F) ==
    IF TLen(t) < F THEN PadTail(t, F - TLen(t))
    ELSE IF TLen(t) > F THEN Truncate(t, F)
    ELSE t

\* lines 55-57: the branch that calls np.pad, and whether np.pad raises
PadRaises(t, F) == TLen(t) < F /\ ~PadFits(t)

\* frames.permute(0, 3, 1, 2): (T,H,W,C) -> (T,C,H,W)
Permute(t) ==
    [shape |-> <<t.shape[1], t.shape[4], t.shape[2], t.shape[3]>>, data |-> t.data]

\* The whole of __getitem__ as a function of what the file decodes to.
Decoded(file) == IF file.readable THEN file.stream ELSE <<>>

GetItem(file, label, F) ==
    LET list == [i \in 1..Len(Decoded(file)) |-> Resize(Decoded(file)[i])]
        t == Normalize(NpArray(list))
    IN  IF PadRaises(t, F)
        THEN [ok |-> FALSE, error |-> "ValueError"]
        ELSE [ok |-> TRUE, frames |-> Permute(PadOrTruncate(t, F)), label |-> label]

NoTensor == [shape |-> <<>>, data |-> <<>>]
NoResult == [ok |-> FALSE, error |-> "pending"]

ItemIdle ==
    /\ item_pc = "idle"
    /\ video = [readable |-> FALSE, stream |-> <<>>]
    /\ item_label = 0
    /\ cap_pos = 0
    /\ frames = <<>>
    /\ tensor = NoTensor
    /\ item_result = NoResult

\* lines 40-43
OpenVideo ==
    /\ item_pc = "open"
    /\ frames' = <<>>
    /\ cap_pos' = 0
    /\ item_pc' = "read"
    /\ UNCHANGED <<video, item_label, tensor, item_result>>
    /\ UNCHANGED <<configVars, fixed_frame_count, indexVars, loopVars, runVars>>

\* lines 44-48: cap.isOpened() and cap.read() delivered a frame
ReadFrame ==
    /\ item_pc = "read"
    /\ video.readable
    /\ cap_pos < Len(video.stream)
    /\ frames' = Append(frames, Resize(video.stream[cap_pos + 1]))
    /\ cap_pos' = cap_pos + 1
    /\ UNCHANGED <<item_pc, video, item_label, tensor, item_result>>
    /\ UNCHANGED <<configVars, fixed_frame_count, indexVars, loopVars, runVars>>

\* lines 44, 49-53: the capture is not open, or read() returned ret = False
ReadEnd ==
    /\ item_pc = "read"
    /\ ~video.readable \/ cap_pos = Len(video.stream)
    /\ tensor' = Normalize(NpArray(frames))
    /\ item_pc' = "fit"
    /\ UNCHANGED <<video, item_label, cap_pos, frames, item_result>>
    /\ UNCHANGED <<configVars, fixed_frame_count, indexVars, loopVars, runVars>>

\* lines 55-57, np.pad raising
FitRaises ==
    /\ item_pc = "fit"
    /\ PadRaises(tensor, fixed_frame_count)
    /\ item_result' = [ok |-> FALSE, error |-> "ValueError"]
    /\ item_pc' = "raised"
    /\ UNCHANGED <<video, item_label, cap_pos, frames, tensor>>
    /\ UNCHANGED <<configVars, fixed_frame_count, indexVars, loopVars, runVars>>

\* lines 55-60
Fit ==
    /\ item_pc = "fit"
    /\ ~PadRaises(tensor, fixed_frame_count)
    /\ tensor' = PadOrTruncate(tensor, fixed_frame_count)
    /\ item_pc' = "permute"
    /\ UNCHANGED <<video, item_label, cap_pos, frames, item_result>>
    /\ UNCHANGED <<configVars, fixed_frame_count, indexVars, loopVars, runVars>>

\* lines 61-62
PermuteReturn ==
    /\ item_pc = "permute"
    /\ tensor' = Permute(tensor)
    /\ item_result' = [ok |-> TRUE, frames |-> Permute(tensor), label |-> item_label]
    /\ item_pc' = "returned"
    /\ UNCHANGED <<video, item_label, cap_pos, frames>>
    /\ UNCHANGED <<configVars, fixed_frame_count, indexVars, loopVars, runVars>>

----------------------------------------------------------------------------
(* VideoBehaviorModel.prepare_data                                         *)
(*                                                                         *)
(* A folder or file name is a sequence of character codes, so that sorting *)
(* is the lexicographic order python's str comparison gives.  An entry of  *)
(* video_folder is [name, isdir]; an entry of a class folder is            *)
(* [name, ext]; a path is [dir, file].                                     *)

Names == {<<1>>, <<1, 2>>, <<2>>, <<2, 1>>}
Exts == {"avi", "txt"}

\* python's str < str
RECURSIVE StrLess(_, _)
StrLess(a, b) ==
    IF a = <<>> THEN b # <<>>
    ELSE IF b = <<>> THEN FALSE
    ELSE IF Head(a) # Head(b) THEN Head(a) < Head(b)
    ELSE StrLess(Tail(a), Tail(b))

NoRepeat(s) == \A i, j \in DOMAIN s : i # j => s[i] # s[j]

\* every listing os.listdir(video_folder) can return: distinct names, any order
RootListings ==
    {r \in SeqsUpTo([name : Names, isdir : BOOLEAN], MaxDirs) :
        NoRepeat([i \in DOMAIN r |-> r[i].name])}

\* every listing os.listdir(class_path) can return
FileListings ==
    {fs \in SeqsUpTo([name : 1..MaxFiles, ext : Exts], MaxFiles) :
        \A i \in DOMAIN fs : fs[i].name = i}

\* np.random.rand(), in hundredths
Draws == {0, TrainPercent - 1, TrainPercent, 99}

\* lines 87-88: the list comprehension keeps the directories, in listing order
RECURSIVE DirNames(_)
DirNames(r) ==
    IF r = <<>> THEN <<>>
    ELSE IF Head(r).isdir THEN <<Head(r).name>> \o DirNames(Tail(r))
    ELSE DirNames(Tail(r))

RECURSIVE InsertSorted(_, _)
InsertSorted(x, s) ==
    IF s = <<>> THEN <<x>>
    ELSE IF StrLess(x, Head(s)) THEN <<x>> \o s
    ELSE <<Head(s)>> \o InsertSorted(x, Tail(s))

SortNames_Unsorted(names) == names

\* line 89: class_names.sort()
RECURSIVE SortNames(_)
SortNames(names) ==
    IF names = <<>> THEN <<>>
    ELSE InsertSorted(Head(names), SortNames(Tail(names)))

\* line 92: {class_name: idx for idx, class_name in enumerate(class_names)}
LabelDict(names) ==
    [c \in Range(names) |->
        (CHOOSE i \in DOMAIN names :
            names[i] = c /\ \A j \in DOMAIN names : names[j] = c => j <= i) - 1]

\* line 97
EndsWithAvi(file) == file.ext = "avi"

\* line 98
PathJoin(dir, file) == [dir |-> dir, file |-> file]

SplitAppend_LabelBothSides(lists, path, label, r) ==
    IF r < TrainPercent
    THEN [lists EXCEPT !.train_paths = Append(@, path),
                       !.train_labels = Append(@, label)]
    ELSE [lists EXCEPT !.test_paths = Append(@, path),
                       !.test_labels = Append(@, label),
                       !.train_paths = Append(@, path),
                       !.train_labels = Append(@, label)]

\* lines 100-105
SplitAppend(lists, path, label, r) ==
    IF r < TrainPercent
    THEN [lists EXCEPT !.train_paths = Append(@, path),
                       !.train_labels = Append(@, label)]
    ELSE [lists EXCEPT !.test_paths = Append(@, path),
                       !.test_labels = Append(@, label)]

Lists ==
    [train_paths |-> train_paths, test_paths |-> test_paths,
     train_labels |-> train_labels, test_labels |-> test_labels]

EmptyMap == [c \in {} |-> <<>>]

\* the locals of prepare_data before it has run
IndexerIdle ==
    /\ listed = EmptyMap
    /\ class_names = <<>>
    /\ label_dict = EmptyMap
    /\ class_pos = 0
    /\ cur_files = <<>>
    /\ file_pos = 0
    /\ train_paths = <<>>
    /\ test_paths = <<>>
    /\ train_labels = <<>>
    /\ test_labels = <<>>

\* lines 84-92
ListAndSort ==
    /\ pc = "prepare_data"
    /\ class_names' = SortNames(DirNames(root))
    /\ label_dict' = LabelDict(class_names')
    /\ class_pos' = 1
    /\ train_paths' = <<>>
    /\ test_paths' = <<>>
    /\ train_labels' = <<>>
    /\ test_labels' = <<>>
    /\ pc' = "classes"
    /\ UNCHANGED <<root, listed, cur_files, file_pos>>
    /\ UNCHANGED <<itemVars, configVars, fixed_frame_count, loopVars, runRest>>

\* lines 94-96: the next item of label_dict, and os.listdir(class_path)
EnterClass ==
    /\ pc = "classes"
    /\ class_pos <= Len(class_names)
    /\ \E fs \in FileListings :
          /\ cur_files' = fs
          /\ listed' = (class_names[class_pos] :> fs) @@ listed
    /\ file_pos' = 1
    /\ pc' = "files"
    /\ UNCHANGED <<root, class_names, label_dict, class_pos,
                   train_paths, test_paths, train_labels, test_labels>>
    /\ UNCHANGED <<itemVars, configVars, fixed_frame_count, loopVars, runRest>>

\* lines 96-97: a name that does not end with '.avi'
SkipFile ==
    /\ pc = "files"
    /\ file_pos <= Len(cur_files)
    /\ ~EndsWithAvi(cur_files[file_pos])
    /\ file_pos' = file_pos + 1
    /\ UNCHANGED <<pc, root, listed, class_names, label_dict, class_pos, cur_files,
                   train_paths, test_paths, train_labels, test_labels>>
    /\ UNCHANGED <<itemVars, configVars, fixed_frame_count, loopVars, runRest>>

\* lines 96-105
RouteVideo ==
    /\ pc = "files"
    /\ file_pos <= Len(cur_files)
    /\ EndsWithAvi(cur_files[file_pos])
    /\ \E r \in Draws :
          LET video_class == class_names[class_pos]
              out == SplitAppend(Lists, PathJoin(video_class, cur_files[file_pos]),
                                 label_dict[video_class], r)
          IN  /\ train_paths' = out.train_paths
              /\ test_paths' = out.test_paths
              /\ train_labels' = out.train_labels
              /\ test_labels' = out.test_labels
    /\ file_pos' = file_pos + 1
    /\ UNCHANGED <<pc, root, listed, class_names, label_dict, class_pos, cur_files>>
    /\ UNCHANGED <<itemVars, configVars, fixed_frame_count, loopVars, runRest>>

\* line 96: the class folder's listing is exhausted
LeaveClass ==
    /\ pc = "files"
    /\ file_pos > Len(cur_files)
    /\ class_pos' = class_pos + 1
    /\ pc' = "classes"
    /\ UNCHANGED <<root, listed, class_names, label_dict, cur_files, file_pos,
                   train_paths, test_paths, train_labels, test_labels>>
    /\ UNCHANGED <<itemVars, configVars, fixed_frame_count, loopVars, runRest>>

\* lines 94, 107-110: label_dict is exhausted, the four lists are returned
ReturnSplit ==
    /\ pc = "classes"
    /\ class_pos > Len(class_names)
    /\ pc' = "create_data_loaders"
    /\ UNCHANGED indexVars
    /\ UNCHANGED <<itemVars, configVars, fixed_frame_count, loopVars, runRest>>

----------------------------------------------------------------------------
(* VideoBehaviorModel.main                                                 *)
(*                                                                         *)
(* A float quotient a / b is held as [num |-> a, den |-> b].  A loader     *)
(* pass is the set `remaining` of dataset positions not yet delivered.     *)

\* forward(), line 21: x.reshape(batch_size, seq_len, -1) of (b, t, c, h, w)
FeatureWidth(shape) == shape[2] * shape[3] * shape[4]

\* the shape of every FrameTensor __getitem__ returns
ItemShape == <<fixed_frame_count, Channels, ResizeSide, ResizeSide>>

\* lines 12-17
NewModel(in, hidden, out) == [lstm_input |-> in, hidden |-> hidden, fc_out |-> out]

\* forward(), line 22: nn.LSTM rejects an input whose last axis is not input_size
LstmAccepts(m, shape) == FeatureWidth(shape) = m.lstm_input

\* line 137: nn.CrossEntropyLoss rejects a target outside [0, C)
LossAccepts(m, labels) == \A l \in labels : 0 <= l /\ l < m.fc_out

\* what a file can turn out to hold when a loader worker decodes it
FetchFiles ==
    {[readable |-> FALSE, stream |-> <<>>],
     [readable |-> TRUE, stream |-> <<>>],
     [readable |-> TRUE, stream |-> <<[h |-> 4, w |-> 4, pix |-> PixelMax]>>]}

\* DataLoader(batch_size=..., drop_last=False): the next batch's length
BatchLen(left, bs) == Min(bs, left)

\* DataLoader(shuffle=True): any batch-sized subset of what is left
ShuffledBatches(left, bs) ==
    {b \in SUBSET left : Cardinality(b) = BatchLen(Cardinality(left), bs)}

\* DataLoader(shuffle=False): the lowest positions that are left
SequentialBatch(left, bs) ==
    {i \in left : Cardinality({j \in left : j < i}) < BatchLen(Cardinality(left), bs)}

\* len(train_loader)
LoaderLen(n, bs) == (n + bs - 1) \div bs

AddBatch_CountsBatchSize(count, labels_size) == count + batch_size

\* lines 143, 165: total += labels.size(0)
AddBatch(count, labels_size) == count + labels_size

\* loss.item() of one batch, in abstract units: the loss is a positive float
\* whose value no step of the run branches on
LossValues == {1}

Quotient(a, b) == [num |-> a, den |-> b]

NoModel == NewModel(0, 0, 0)
\* no quotient computed yet (no computed quotient has a zero denominator)
NoQuotient == Quotient(0, 0)

LoopIdle ==
    /\ epoch = 0
    /\ remaining = {}
    /\ batches_done = 0
    /\ running_loss = 0
    /\ correct = 0
    /\ total = 0
    /\ train_losses = <<>>
    /\ train_accuracies = <<>>
    /\ test_accuracy = NoQuotient

RunIdle ==
    /\ failure = "none"
    /\ failedIn = "none"
    /\ model = NoModel
    /\ opt_steps = 0
    /\ checkpoints = <<>>
    /\ plotted = <<>>

Raise(exc, where) ==
    /\ pc' = "failed"
    /\ failure' = exc
    /\ failedIn' = where

\* lines 113-120, 200
CreateDataLoaders ==
    /\ pc = "create_data_loaders"
    /\ pc' = "build_model"
    /\ UNCHANGED <<failure, failedIn, model, opt_steps, checkpoints, plotted>>
    /\ UNCHANGED <<indexVars, loopVars>>
    /\ UNCHANGED <<itemVars, configVars, fixed_frame_count>>

\* line 117: DataLoader(shuffle=True) builds a RandomSampler, which in torch
\* releases that check num_samples > 0 raises ValueError for an empty dataset
CreateDataLoadersRejectsEmpty ==
    /\ pc = "create_data_loaders"
    /\ Len(train_paths) = 0
    /\ Raise("ValueError", "create_data_loaders")
    /\ UNCHANGED <<model, opt_steps, checkpoints, plotted>>
    /\ UNCHANGED <<indexVars, loopVars>>
    /\ UNCHANGED <<itemVars, configVars, fixed_frame_count>>

\* lines 203-207, 124-125
BuildModel ==
    /\ pc = "build_model"
    /\ model' = NewModel(input_size, HiddenSize, num_classes)
    /\ train_losses' = <<>>
    /\ train_accuracies' = <<>>
    /\ epoch' = 0
    /\ pc' = "epoch"
    /\ UNCHANGED <<failure, failedIn, opt_steps, checkpoints, plotted>>
    /\ UNCHANGED <<remaining, batches_done, running_loss, correct, total, test_accuracy>>
    /\ UNCHANGED indexVars
    /\ UNCHANGED <<itemVars, configVars, fixed_frame_count>>

\* lines 127-131: one more epoch starts
EpochStart ==
    /\ pc = "epoch"
    /\ epoch < epochs
    /\ running_loss' = 0
    /\ correct' = 0
    /\ total' = 0
    /\ remaining' = 1..Len(train_paths)
    /\ batches_done' = 0
    /\ pc' = "train_batches"
    /\ UNCHANGED <<failure, failedIn, model, opt_steps, checkpoints, plotted>>
    /\ UNCHANGED <<epoch, train_losses, train_accuracies, test_accuracy>>
    /\ UNCHANGED indexVars
    /\ UNCHANGED <<itemVars, configVars, fixed_frame_count>>

\* the items of one batch, as __getitem__ returns them
Fetched(labels, batch, files) ==
    [i \in batch |-> GetItem(files[i], labels[i], fixed_frame_count)]

\* lines 132-144: one batch, every step of it succeeding
TrainBatch ==
    /\ pc = "train_batches"
    /\ remaining # {}
    /\ \E batch \in ShuffledBatches(remaining, batch_size) :
       \E files \in [batch -> FetchFiles] :
          LET items == Fetched(train_labels, batch, files)
          IN  /\ \A i \in batch : items[i].ok
              /\ \A i \in batch : LstmAccepts(model, items[i].frames.shape)
              /\ LossAccepts(model, {items[i].label : i \in batch})
              /\ remaining' = remaining \ batch
              /\ total' = AddBatch(total, Cardinality(batch))
              /\ \E hits \in 0..Cardinality(batch) : correct' = correct + hits
    /\ \E loss \in LossValues : running_loss' = running_loss + loss
    /\ opt_steps' = opt_steps + 1
    /\ batches_done' = batches_done + 1
    /\ UNCHANGED <<pc, failure, failedIn, model, checkpoints, plotted>>
    /\ UNCHANGED <<epoch, train_losses, train_accuracies, test_accuracy>>
    /\ UNCHANGED indexVars
    /\ UNCHANGED <<itemVars, configVars, fixed_frame_count>>

\* line 132: a loader worker's __getitem__ raised
TrainBatchFetchRaises ==
    /\ pc = "train_batches"
    /\ remaining # {}
    /\ \E batch \in ShuffledBatches(remaining, batch_size) :
       \E files \in [batch -> FetchFiles] :
          \E i \in batch : ~Fetched(train_labels, batch, files)[i].ok
    /\ Raise("ValueError", "train_model")
    /\ UNCHANGED <<model, opt_steps, checkpoints, plotted>>
    /\ UNCHANGED <<indexVars, loopVars>>
    /\ UNCHANGED <<itemVars, configVars, fixed_frame_count>>

\* line 136: the forward pass raised
TrainBatchForwardRaises ==
    /\ pc = "train_batches"
    /\ remaining # {}
    /\ ~LstmAccepts(model, ItemShape)
    /\ Raise("RuntimeError", "train_model")
    /\ UNCHANGED <<model, opt_steps, checkpoints, plotted>>
    /\ UNCHANGED <<indexVars, loopVars>>
    /\ UNCHANGED <<itemVars, configVars, fixed_frame_count>>

\* line 137: the criterion raised
TrainBatchLossRaises ==
    /\ pc = "train_batches"
    /\ remaining # {}
    /\ LstmAccepts(model, ItemShape)
    /\ \E batch \in ShuffledBatches(remaining, batch_size) :
          ~LossAccepts(model, {train_labels[i] : i \in batch})
    /\ Raise("IndexError", "train_model")
    /\ UNCHANGED <<model, opt_steps, checkpoints, plotted>>
    /\ UNCHANGED <<indexVars, loopVars>>
    /\ UNCHANGED <<itemVars, configVars, fixed_frame_count>>

\* lines 146-151: the loader is exhausted and the epoch is recorded
EpochEnd ==
    /\ pc = "train_batches"
    /\ remaining = {}
    /\ total # 0
    /\ train_accuracies' = Append(train_accuracies, Quotient(100 * correct, total))
    /\ train_losses' =
          Append(train_losses, Quotient(running_loss, LoaderLen(Len(train_paths), batch_size)))
    /\ epoch' = epoch + 1
    /\ pc' = "epoch"
    /\ UNCHANGED <<failure, failedIn, model, opt_steps, checkpoints, plotted>>
    /\ UNCHANGED <<remaining, batches_done, running_loss, correct, total, test_accuracy>>
    /\ UNCHANGED indexVars
    /\ UNCHANGED <<itemVars, configVars, fixed_frame_count>>

\* line 146: 100 * correct / total with total = 0
EpochEndDividesByZero ==
    /\ pc = "train_batches"
    /\ remaining = {}
    /\ total = 0
    /\ Raise("ZeroDivisionError", "train_model")
    /\ UNCHANGED <<model, opt_steps, checkpoints, plotted>>
    /\ UNCHANGED <<indexVars, loopVars>>
    /\ UNCHANGED <<itemVars, configVars, fixed_frame_count>>

\* lines 127, 153, 157-159: range(epochs) is exhausted, train_model returns
\* and test_model starts
TrainReturn ==
    /\ pc = "epoch"
    /\ epoch >= epochs
    /\ correct' = 0
    /\ total' = 0
    /\ remaining' = 1..Len(test_paths)
    /\ batches_done' = 0
    /\ pc' = "test_batches"
    /\ UNCHANGED <<failure, failedIn, model, opt_steps, checkpoints, plotted>>
    /\ UNCHANGED <<epoch, running_loss, train_losses, train_accuracies, test_accuracy>>
    /\ UNCHANGED indexVars
    /\ UNCHANGED <<itemVars, configVars, fixed_frame_count>>

\* lines 161-166
TestBatch ==
    /\ pc = "test_batches"
    /\ remaining # {}
    /\ LET batch == SequentialBatch(remaining, batch_size)
       IN  \E files \in [batch -> FetchFiles] :
             LET items == Fetched(test_labels, batch, files)
             IN  /\ \A i \in batch : items[i].ok
                 /\ \A i \in batch : LstmAccepts(model, items[i].frames.shape)
                 /\ remaining' = remaining \ batch
                 /\ total' = AddBatch(total, Cardinality(batch))
                 /\ \E hits \in 0..Cardinality(batch) : correct' = correct + hits
    /\ batches_done' = batches_done + 1
    /\ UNCHANGED <<pc, failure, failedIn, model, opt_steps, checkpoints, plotted>>
    /\ UNCHANGED <<epoch, running_loss, train_losses, train_accuracies, test_accuracy>>
    /\ UNCHANGED indexVars
    /\ UNCHANGED <<itemVars, configVars, fixed_frame_count>>

\* line 161: a loader worker's __getitem__ raised
TestBatchFetchRaises ==
    /\ pc = "test_batches"
    /\ remaining # {}
    /\ LET batch == SequentialBatch(remaining, batch_size)
       IN  \E files \in [batch -> FetchFiles] :
             \E i \in batch : ~Fetched(test_labels, batch, files)[i].ok
    /\ Raise("ValueError", "test_model")
    /\ UNCHANGED <<model, opt_steps, checkpoints, plotted>>
    /\ UNCHANGED <<indexVars, loopVars>>
    /\ UNCHANGED <<itemVars, configVars, fixed_frame_count>>

\* line 163: the forward pass raised
TestBatchForwardRaises ==
    /\ pc = "test_batches"
    /\ remaining # {}
    /\ ~LstmAccepts(model, ItemShape)
    /\ Raise("RuntimeError", "test_model")
    /\ UNCHANGED <<model, opt_steps, checkpoints, plotted>>
    /\ UNCHANGED <<indexVars, loopVars>>
    /\ UNCHANGED <<itemVars, configVars, fixed_frame_count>>

\* lines 168-170: the test loader is exhausted
TestEnd ==
    /\ pc = "test_batches"
    /\ remaining = {}
    /\ total # 0
    /\ test_accuracy' = Quotient(100 * correct, total)
    /\ pc' = "save_model"
    /\ UNCHANGED <<failure, failedIn, model, opt_steps, checkpoints, plotted>>
    /\ UNCHANGED <<epoch, remaining, batches_done, running_loss, correct, total,
                   train_losses, train_accuracies>>
    /\ UNCHANGED indexVars
    /\ UNCHANGED <<itemVars, configVars, fixed_frame_count>>

\* line 168: 100 * correct / total with total = 0
TestEndDividesByZero ==
    /\ pc = "test_batches"
    /\ remaining = {}
    /\ total = 0
    /\ Raise("ZeroDivisionError", "test_model")
    /\ UNCHANGED <<model, opt_steps, checkpoints, plotted>>
    /\ UNCHANGED <<indexVars, loopVars>>
    /\ UNCHANGED <<itemVars, configVars, fixed_frame_count>>

SaveModel_AfterEachEpoch ==
    /\ \/ pc = "save_model"
       \/ pc = "epoch" /\ Len(checkpoints) < epoch
    /\ checkpoints' = Append(checkpoints, [at |-> pc, epochs_done |-> epoch,
                                           opt_steps |-> opt_steps])
    /\ pc' = IF pc = "save_model" THEN "plot_results" ELSE pc
    /\ UNCHANGED <<failure, failedIn, model, opt_steps, plotted>>
    /\ UNCHANGED <<indexVars, loopVars>>
    /\ UNCHANGED <<itemVars, configVars, fixed_frame_count>>

\* lines 173-175, 216
SaveModel ==
    /\ pc = "save_model"
    /\ checkpoints' = Append(checkpoints, [at |-> pc, epochs_done |-> epoch,
                                           opt_steps |-> opt_steps])
    /\ pc' = "plot_results"
    /\ UNCHANGED <<failure, failedIn, model, opt_steps, plotted>>
    /\ UNCHANGED <<indexVars, loopVars>>
    /\ UNCHANGED <<itemVars, configVars, fixed_frame_count>>

\* lines 178-195, 219
PlotResults ==
    /\ pc = "plot_results"
    /\ plotted' = <<[x |-> [i \in 1..epochs |-> i], loss |-> train_losses,
                     accuracy |-> train_accuracies]>>
    /\ pc' = "done"
    /\ UNCHANGED <<failure, failedIn, model, opt_steps, checkpoints>>
    /\ UNCHANGED <<indexVars, loopVars>>
    /\ UNCHANGED <<itemVars, configVars, fixed_frame_count>>

----------------------------------------------------------------------------
(* Specifications *)

\* the constructor's arguments a run is checked for
InputSizes == {DefaultInputSize, Channels * ResizeSide * ResizeSide}

\* video_folder of a run of main(): class folders only, one-letter names
RunRoots ==
    {r \in RootListings : \A i \in DOMAIN r : r[i].isdir /\ Len(r[i].name) = 1}

Init ==
    /\ ItemIdle
    /\ input_size \in InputSizes
    /\ num_classes \in 1..MaxNumClasses
    /\ batch_size \in 1..MaxBatch
    /\ epochs \in 0..MaxEpochs
    /\ fixed_frame_count = MaxF
    /\ root \in RunRoots
    /\ IndexerIdle
    /\ LoopIdle
    /\ RunIdle
    /\ pc = "prepare_data"

Next ==
    \/ ListAndSort \/ EnterClass \/ SkipFile \/ RouteVideo \/ LeaveClass \/ ReturnSplit
    \/ CreateDataLoaders \/ CreateDataLoadersRejectsEmpty \/ BuildModel
    \/ EpochStart \/ TrainBatch \/ TrainBatchFetchRaises
    \/ TrainBatchForwardRaises \/ TrainBatchLossRaises
    \/ EpochEnd \/ EpochEndDividesByZero \/ TrainReturn
    \/ TestBatch \/ TestBatchFetchRaises \/ TestBatchForwardRaises
    \/ TestEnd \/ TestEndDividesByZero \/ SaveModel \/ PlotResults

Spec == Init /\ [][Next]_vars

\* prepare_data alone, over every listing of video_folder
InitIndexer ==
    /\ ItemIdle
    /\ input_size = DefaultInputSize
    /\ num_classes \in 1..MaxNumClasses
    /\ batch_size = 1
    /\ epochs = 0
    /\ fixed_frame_count = 1
    /\ root \in RootListings
    /\ IndexerIdle
    /\ LoopIdle
    /\ RunIdle
    /\ pc = "prepare_data"

NextIndexer ==
    ListAndSort \/ EnterClass \/ SkipFile \/ RouteVideo \/ LeaveClass \/ ReturnSplit

SpecIndexer == InitIndexer /\ [][NextIndexer]_vars

\* one call of __getitem__, over every file and fixed_frame_count
InitItem ==
    /\ item_pc = "open"
    /\ video \in VideoFiles
    /\ item_label \in 0..1
    /\ cap_pos = 0
    /\ frames = <<>>
    /\ tensor = NoTensor
    /\ item_result = NoResult
    /\ input_size = DefaultInputSize
    /\ num_classes = 1
    /\ batch_size = 1
    /\ epochs = 0
    /\ fixed_frame_count \in 1..MaxF
    /\ root = <<>>
    /\ IndexerIdle
    /\ LoopIdle
    /\ RunIdle
    /\ pc = "idle"

NextItem == OpenVideo \/ ReadFrame \/ ReadEnd \/ FitRaises \/ Fit \/ PermuteReturn

SpecItem == InitItem /\ [][NextItem]_vars

----------------------------------------------------------------------------
(* Properties of VideoDataset.__getitem__ (SpecItem) *)

ItemFinished == item_pc \in {"returned", "raised"}

\* the frame sequence the Frame Normalizer is to deliver for a decoded stream:
\* the first F normalised frames in order, zero frames after them
ExpectedData(stream, F) ==
    [i \in 1..F |-> IF i <= Len(stream) THEN (stream[i].pix * 1000) \div PixelMax ELSE 0]

\* C1: for every decoded length L >= 0 and every F >= 1, __getitem__ returns
\* exactly F frames: the first min(L, F) decoded frames in order, then F - L
\* all-zero frames when L < F.
C1_FixedLengthAlways ==
    ItemFinished =>
        /\ item_result.ok
        /\ item_result.frames.shape[1] = fixed_frame_count
        /\ item_result.frames.data = ExpectedData(Decoded(video), fixed_frame_count)

\* C10: a file that decodes to zero frames does not make __getitem__ fail: it
\* returns F all-zero frames together with the sample's label.
C10_UnreadableGivesZeroFrames ==
    (ItemFinished /\ Len(Decoded(video)) = 0) =>
        /\ item_result.ok
        /\ item_result.frames.data = [i \in 1..fixed_frame_count |-> 0]
        /\ item_result.label = item_label

----------------------------------------------------------------------------
(* Properties of prepare_data (SpecIndexer) *)

Returned == pc = "create_data_loaders"

\* the class folders of video_folder, and the videos prepare_data indexed
ClassFolders == {root[i].name : i \in {j \in DOMAIN root : root[j].isdir}}
Indexed ==
    UNION {{PathJoin(c, listed[c][i]) :
               i \in {j \in DOMAIN listed[c] : listed[c][j].ext = "avi"}} :
           c \in DOMAIN listed}
Occurrences(s, x) == Cardinality({i \in DOMAIN s : s[i] = x})

\* the label of a class folder: its rank among the class folders by name
RankOf(c) == Cardinality({d \in ClassFolders : StrLess(d, c)})

\* C3: after prepare_data, whatever the draws, every indexed video is in
\* exactly one of train_paths and test_paths and exactly once there; the label
\* lists are parallel to the path lists and carry the label of the path's
\* class folder.
C3_SplitIsPartition ==
    Returned =>
        /\ DOMAIN listed = ClassFolders
        /\ \A p \in Indexed :
              Occurrences(train_paths, p) + Occurrences(test_paths, p) = 1
        /\ Range(train_paths) \cup Range(test_paths) \subseteq Indexed
        /\ Len(train_labels) = Len(train_paths)
        /\ Len(test_labels) = Len(test_paths)
        /\ \A i \in DOMAIN train_paths : train_labels[i] = label_dict[train_paths[i].dir]
        /\ \A i \in DOMAIN test_paths : test_labels[i] = label_dict[test_paths[i].dir]

\* two class folders whose videos went to different sides, the second
\* class's video to the train list
C3_Witness ==
    /\ Returned
    /\ Cardinality(ClassFolders) = 2
    /\ Cardinality(Indexed) = 2
    /\ Len(train_paths) = 1
    /\ Len(test_paths) = 1
    /\ train_labels = <<1>>
    /\ test_labels = <<0>>

\* C4: the label of a class folder is its name's index in the sorted list of
\* class-folder names, whatever order the folders are enumerated in and
\* whatever the split draws are.
C4_LabelIsSortedRank ==
    pc # "prepare_data" =>
        /\ DOMAIN label_dict = ClassFolders
        /\ \A c \in ClassFolders : label_dict[c] = RankOf(c)

\* two folders enumerated in descending order, one name a prefix of the
\* other, and both labels handed out
C4_Witness ==
    /\ Returned
    /\ DirNames(root) = <<<<1, 2>>, <<1>>>>
    /\ label_dict[<<1, 2>>] = 1
    /\ Range(train_labels) \cup Range(test_labels) = {0, 1}

\* C5: every label prepare_data emits is in [0, num_classes), for every
\* directory tree.
C5_LabelsWithinNumClasses ==
    \A l \in Range(train_labels) \cup Range(test_labels) : 0 <= l /\ l < num_classes

----------------------------------------------------------------------------
(* Properties of a run of main() (Spec) *)

InRange(q) == q.den > 0 /\ 0 <= q.num /\ q.num <= 100 * q.den

\* failures that other steps of a batch hand to the loops: a file that does
\* not decode, a model that rejects the batch, a label outside the head
BatchFailures == {"ValueError", "RuntimeError", "IndexError"}

\* C2: the model main() builds accepts every batch the loader delivers: the
\* flattened width of a FrameTensor is the LSTM's input width, and forward()
\* does not fail.
C2_ModelAcceptsBatches == failure # "RuntimeError"

\* C6: running_loss, correct and total are reset when an epoch starts, every
\* batch adds its own size to total, and when the train loader is exhausted
\* total is the number of train samples.
C6_TotalCountsEverySample ==
    pc = "train_batches" =>
        /\ total = Len(train_paths) - Cardinality(remaining)
        /\ batches_done = 0 => running_loss = 0 /\ correct = 0 /\ total = 0
        /\ remaining = {} => total = Len(train_paths)

\* the second epoch's loader is exhausted after a batch shorter than
\* batch_size, the first epoch having counted a correct prediction
C6_Witness ==
    /\ pc = "train_batches"
    /\ remaining = {}
    /\ epoch = 1
    /\ Len(train_paths) < batch_size
    /\ batches_done = 1
    /\ total = Len(train_paths)
    /\ train_accuracies[1].num > 0
    /\ correct = 0

TrainModelReturned ==
    \/ pc \in {"test_batches", "save_model", "plot_results", "done"}
    \/ pc = "failed" /\ failedIn = "test_model"

\* C7: for every train set prepare_data can produce and every epochs >= 0,
\* train_model returns, with one (loss, accuracy) pair per epoch and every
\* accuracy in [0, 100].  (Failures handed up by a batch are not held against
\* train_model here.)
C7_TrainModelReturns ==
    /\ (pc = "failed" /\ failedIn = "train_model") => failure \in BatchFailures
    /\ TrainModelReturned =>
          /\ Len(train_losses) = epochs
          /\ Len(train_accuracies) = epochs
          /\ \A i \in DOMAIN train_accuracies : InRange(train_accuracies[i])

\* C8: for every test set prepare_data can produce from a non-empty dataset,
\* test_model passes over the test loader once and returns an accuracy in
\* [0, 100].  (Failures handed up by a batch are not held against test_model
\* here.)
C8_TestModelReturns ==
    Len(train_paths) + Len(test_paths) > 0 =>
        /\ (pc = "failed" /\ failedIn = "test_model") => failure \in BatchFailures
        /\ pc \in {"save_model", "plot_results", "done"} =>
              remaining = {} /\ total = Len(test_paths) /\ InRange(test_accuracy)

\* C9: the checkpoint is written at most once, only after every epoch and the
\* evaluation pass have completed, with no training step after it; a run that
\* failed before that has written no checkpoint.
C9_CheckpointOnceAtEnd ==
    /\ Len(checkpoints) <= 1
    /\ checkpoints # <<>> =>
          /\ pc \in {"plot_results", "done"}
          /\ checkpoints[1].epochs_done = epochs
          /\ checkpoints[1].opt_steps = opt_steps
          /\ test_accuracy # NoQuotient
    /\ pc = "failed" => checkpoints = <<>>
    /\ pc \in {"plot_results", "done"} => Len(checkpoints) = 1

\* a run of two epochs with training steps that ended with its one checkpoint
C9_Witness ==
    /\ pc = "done"
    /\ epochs = 2
    /\ opt_steps >= 2
    /\ Len(checkpoints) = 1

====
